---- MODULE Spec2Model ----
(***************************************************************************)
(* Model of the real-time call-streaming server of HeyAI-backend           *)
(* (src/unnamed/part_000, lines 1-355): the connection registry            *)
(* activeStreams, the transport reader streamHandler, the webhook          *)
(* processSpeechHandler, the per-turn pipeline streamGeminiAndTTS and the  *)
(* synthesis/delivery pump streamToElevenLabsAndTwilio.                    *)
(*                                                                         *)
(* Text is a sequence of one-character strings; audio is a sequence of     *)
(* bytes (0..255).  Go indices are kept 0-based where the code compares    *)
(* them (lastBoundary > 0).                                                *)
(***************************************************************************)
EXTENDS Integers, Sequences, FiniteSets, TLC

VARIABLES
    \* ---- segmenter of one turn, run alone (SpecSeg) ----
    segPc,        \* "feed" | "tts" | "done" | "aborted" : position of the turn's loop
    segChunks,    \* the text parts received so far, in order
    sentenceBuffer, \* strings.Builder sentenceBuffer
    segOut,       \* texts handed to synthesis: [text, via \in {"feed","flush"}]
    remainder,    \* the local remainder of line 256 while the synthesis runs
    \* ---- framing of one synthesized audio, run alone (SpecFrame) ----
    fPc,          \* "loop" | "done" | "err"
    audioData,    \* the bytes read from the synthesis response
    fI,           \* loop variable i
    fMsgs,        \* messages written to the connection, in write order
    \* ---- the server (Spec) ----
    load,         \* what the environment sends in this run (see Workloads)
    envOK,        \* the four environment variables of lines 198-201 are set
    crashed,      \* a goroutine panicked: the process is gone
    streams,      \* activeStreams.streams: call SID -> connection
    rw,           \* activeStreams.RWMutex: [writer, readers]
    rd,           \* streamHandler invocation of each connection
    hd,           \* processSpeechHandler invocations
    pl,           \* the goroutine of lines 109-113 of each invocation
    wsHolder,     \* SafeWS.lock of each connection: the pipelines inside WriteJSON
    wire,         \* the last media message written on each connection
    \* ---- the Twilio webhook of the agent server (SpecAgent) ----
    agLoad,       \* what the environment sends in this run (see AgentWorkloads)
    sessions,     \* Firestore sessions collection: document ID -> session
    nextID,       \* number of session IDs drawn from uuid.New()
    clock,        \* time.Now() of the last write of a session document
    ar,           \* VoiceWebhook invocations
    st            \* callers of the FirestoreService session functions (SpecStore)

segVars   == <<segPc, segChunks, sentenceBuffer, segOut, remainder>>
frameVars == <<fPc, audioData, fI, fMsgs>>
sysVars   == <<load, envOK, crashed, streams, rw, rd, hd, pl, wsHolder, wire>>
agentVars == <<agLoad, sessions, nextID, clock, ar, st>>
vars      == <<segVars, frameVars, sysVars, agentVars>>
\* what no step of the server changes
fixedVars == <<load, envOK, segVars, frameVars, agentVars>>

(***************************************************************************)
(* Strings                                                                 *)
(***************************************************************************)
\* unicode.IsSpace restricted to the characters the model uses
WhiteSpace == {" ", "\t", "\n", "\r"}

RECURSIVE Concat(_)
Concat(ss) == IF ss = <<>> THEN <<>> ELSE Head(ss) \o Concat(Tail(ss))

\* strings.Contains(text, ch) for a one-character ch
Contains(text, ch) == \E k \in 1..Len(text) : text[k] = ch

\* strings.LastIndex(text, ch): 0-based index of the last ch, -1 if none
LastIndex(text, ch) ==
    IF Contains(text, ch)
    THEN (CHOOSE k \in 1..Len(text) :
              /\ text[k] = ch
              /\ \A j \in (k+1)..Len(text) : text[j] # ch) - 1
    ELSE -1

\* text[lo:hi] of Go (0-based, hi exclusive)
Slice(text, lo, hi) == SubSeq(text, lo + 1, hi)

RECURSIVE TrimLeft(_)
TrimLeft(s) ==
    IF s # <<>> /\ Head(s) \in WhiteSpace THEN TrimLeft(Tail(s)) ELSE s

RECURSIVE TrimRight(_)
TrimRight(s) ==
    IF s # <<>> /\ s[Len(s)] \in WhiteSpace
    THEN TrimRight(SubSeq(s, 1, Len(s) - 1)) ELSE s

\* strings.TrimSpace
\* strings.TrimSpace trimming the front only
TrimSpace_LeftOnly(s) == TrimLeft(s)
TrimSpace(s) == TrimLeft(TrimRight(s))

(***************************************************************************)
(* Sentence segmentation: streamGeminiAndTTS, lines 235-266 and 272-281    *)
(***************************************************************************)
\* line 240
HasBoundary(text) ==
    Contains(text, ".") \/ Contains(text, "!") \/ Contains(text, "?")

\* lines 242-252 taking the first boundary of the text instead of the last
LastBoundary_First(text) ==
    IF \E k \in 1..Len(text) : text[k] \in {".", "!", "?"}
    THEN (CHOOSE k \in 1..Len(text) :
             /\ text[k] \in {".", "!", "?"}
             /\ \A j \in 1..(k - 1) : text[j] \notin {".", "!", "?"}) - 1
    ELSE -1

\* lines 242-252
LastBoundary(text) ==
    LET lastPeriod   == LastIndex(text, ".")
        lastExclaim  == LastIndex(text, "!")
        lastQuestion == LastIndex(text, "?")
        b1 == IF lastExclaim > lastPeriod THEN lastExclaim ELSE lastPeriod
    IN  IF lastQuestion > b1 THEN lastQuestion ELSE b1

\* line 255 without the TrimSpace
SentenceOf_NoTrim(text, lastBoundary) == Slice(text, 0, lastBoundary + 1)

\* line 255
SentenceOf(text, lastBoundary) == TrimSpace(Slice(text, 0, lastBoundary + 1))

\* line 256 with the slice starting at the boundary character
RemainderOf_FromBoundary(text, lastBoundary) == Slice(text, lastBoundary, Len(text))

\* line 256
RemainderOf(text, lastBoundary) == Slice(text, lastBoundary + 1, Len(text))

\* lines 236-266: the effect of one text part on the buffer.
\* emit = TRUE when streamToElevenLabsAndTwilio is called with sentence.
Feed(buffer, textChunk) ==
    LET text == buffer \o textChunk
        lastBoundary == LastBoundary(text)
    IN  IF HasBoundary(text) /\ lastBoundary > 0
        THEN [emit |-> TRUE,
              sentence |-> SentenceOf(text, lastBoundary),
              buffer |-> RemainderOf(text, lastBoundary)]
        ELSE [emit |-> FALSE, sentence |-> <<>>, buffer |-> text]

\* lines 273-281: the text sent after the stream ended
Flush(buffer) ==
    LET remaining == TrimSpace(buffer)
    IN  IF Len(buffer) > 0 /\ remaining # <<>>
        THEN [emit |-> TRUE, sentence |-> remaining]
        ELSE [emit |-> FALSE, sentence |-> <<>>]

(***************************************************************************)
(* One turn's segmenter, run alone: the text parts of the model stream are *)
(* fed one by one, then the stream ends (io.EOF) or fails.                 *)
(***************************************************************************)
MaxSegChunks == 4

ChunkHello == <<"H","e","l","l","o"," ">>
ChunkWorld == <<"w","o","r","l","d","."," ">>
ChunkHow   == <<"H","o","w"," ","a","r","e"," ","y","o","u","?"," ">>
ChunkFine  == <<"F","i","n","e",".">>

\* text parts the model stream may deliver
SegChunkSet ==
    { ChunkHello, ChunkWorld, ChunkHow, ChunkFine,
      <<>>, <<" ">>, <<".">>, <<"a">>, <<"?"," ">>,
      <<"a",".","b","!"," ","c">> }

SegInit ==
    /\ segPc = "feed"
    /\ segChunks = <<>>
    /\ sentenceBuffer = <<>>
    /\ segOut = <<>>
    /\ remainder = <<>>

\* lines 234-259: one genai.Text part is written to the buffer (line 236);
\* when a sentence is cut, streamToElevenLabsAndTwilio is called with it while
\* the buffer still holds the whole text and remainder the text after the
\* boundary
SegText(textChunk) ==
    /\ segPc = "feed"
    /\ Len(segChunks) < MaxSegChunks
    /\ LET r == Feed(sentenceBuffer, textChunk)
       IN  /\ sentenceBuffer' = sentenceBuffer \o textChunk
           /\ IF r.emit
              THEN /\ segOut' = Append(segOut, [text |-> r.sentence, via |-> "feed"])
                   /\ remainder' = r.buffer
                   /\ segPc' = "tts"
              ELSE UNCHANGED <<segOut, remainder, segPc>>
    /\ segChunks' = Append(segChunks, textChunk)
    /\ UNCHANGED <<frameVars, sysVars, agentVars>>

\* lines 259-264: streamToElevenLabsAndTwilio has returned (its error is only
\* logged); sentenceBuffer.Reset() and sentenceBuffer.WriteString(remainder)
SegAfterTTS ==
    /\ segPc = "tts"
    /\ sentenceBuffer' = remainder
    /\ remainder' = <<>>
    /\ segPc' = "feed"
    /\ UNCHANGED <<segChunks, segOut, frameVars, sysVars, agentVars>>

\* lines 225-226 and 272-284: io.EOF, then the remaining text is sent
SegEOF ==
    /\ segPc = "feed"
    /\ LET r == Flush(sentenceBuffer)
       IN  segOut' = IF r.emit
                     THEN Append(segOut, [text |-> r.sentence, via |-> "flush"])
                     ELSE segOut
    /\ segPc' = "done"
    /\ UNCHANGED <<segChunks, sentenceBuffer, remainder, frameVars, sysVars, agentVars>>

\* lines 228-230: any other iterator error returns at once
SegIterError ==
    /\ segPc = "feed"
    /\ segPc' = "aborted"
    /\ UNCHANGED <<segChunks, sentenceBuffer, segOut, remainder, frameVars, sysVars, agentVars>>

SegNext ==
    \/ \E textChunk \in SegChunkSet : SegText(textChunk)
    \/ SegAfterTTS
    \/ SegEOF
    \/ SegIterError

(***************************************************************************)
(* Framing and delivery of one synthesized audio, run alone:               *)
(* streamToElevenLabsAndTwilio, lines 324-355                              *)
(***************************************************************************)
chunkSize == 160
MaxAudioLen == 325

\* the audio bytes returned by the synthesis service: any content; the model
\* draws them from two byte patterns
AudioBytes(n, seed) == [k \in 1..n |-> (seed + 37 * k) % 256]

\* lines 333-336 with the clamp one byte short
FrameEnd_OneShort(i, n) == IF i + chunkSize >= n THEN n - 1 ELSE i + chunkSize

\* lines 333-336
FrameEnd(i, n) == IF i + chunkSize > n THEN n ELSE i + chunkSize

\* base64.StdEncoding
B64Alphabet ==
    << "A","B","C","D","E","F","G","H","I","J","K","L","M","N","O","P",
       "Q","R","S","T","U","V","W","X","Y","Z","a","b","c","d","e","f",
       "g","h","i","j","k","l","m","n","o","p","q","r","s","t","u","v",
       "w","x","y","z","0","1","2","3","4","5","6","7","8","9","+","/" >>

B64Char(v) == B64Alphabet[v + 1]

\* line 339: base64.StdEncoding.EncodeToString
RECURSIVE EncodeToString(_)
EncodeToString(b) ==
    IF Len(b) = 0 THEN <<>>
    ELSE IF Len(b) = 1
    THEN << B64Char(b[1] \div 4), B64Char((b[1] % 4) * 16), "=", "=" >>
    ELSE IF Len(b) = 2
    THEN << B64Char(b[1] \div 4),
            B64Char((b[1] % 4) * 16 + b[2] \div 16),
            B64Char((b[2] % 16) * 4), "=" >>
    ELSE << B64Char(b[1] \div 4),
            B64Char((b[1] % 4) * 16 + b[2] \div 16),
            B64Char((b[2] % 16) * 4 + b[3] \div 64),
            B64Char(b[3] % 64) >> \o EncodeToString(SubSeq(b, 4, Len(b)))

\* lines 338-346: the media message of the frame audioData[i:end]
MediaMsg(audio, i, end) ==
    [event |-> "media",
     media |-> [payload |-> EncodeToString(Slice(audio, i, end))]]

FrameInit ==
    /\ fPc = "loop"
    /\ \E n \in 0..MaxAudioLen, seed \in {0, 201} : audioData = AudioBytes(n, seed)
    /\ fI = 0
    /\ fMsgs = <<>>

\* lines 332-348: one iteration whose WriteJSON succeeds
FrameWrite ==
    /\ fPc = "loop"
    /\ fI < Len(audioData)
    /\ fMsgs' = Append(fMsgs, MediaMsg(audioData, fI, FrameEnd(fI, Len(audioData))))
    /\ fI' = fI + chunkSize
    /\ UNCHANGED <<fPc, audioData, segVars, sysVars, agentVars>>

\* lines 348-350: WriteJSON fails, the function returns the error
FrameWriteError ==
    /\ fPc = "loop"
    /\ fI < Len(audioData)
    /\ fPc' = "err"
    /\ UNCHANGED <<fI, fMsgs, audioData, segVars, sysVars, agentVars>>

\* lines 332, 353-354: the loop ends, the function returns nil
FrameDone ==
    /\ fPc = "loop"
    /\ ~(fI < Len(audioData))
    /\ fPc' = "done"
    /\ UNCHANGED <<fI, fMsgs, audioData, segVars, sysVars, agentVars>>

FrameNext == FrameWrite \/ FrameWriteError \/ FrameDone

(***************************************************************************)
(* The server: registry, transport readers, webhooks and pipelines         *)
(***************************************************************************)
MaxStarts    == 2     \* start messages handled per connection
MaxResponses == 2     \* responses of one model stream before it ends

None     == "none"
Conns    == {"wsA", "wsB"}          \* the *SafeWS of the streamHandler invocations
Handlers == {1, 2}                  \* processSpeechHandler invocations
Sids     == {"", "CA1", "CA2"}      \* call SIDs; "" is the zero value of a string
Speeches == {<<>>, <<"h","i">>}     \* SpeechResult form values

\* ---- activeStreams.streams, a Go map ----
\* m[k] = v
MapSet(m, k, v) == [x \in DOMAIN m \cup {k} |-> IF x = k THEN v ELSE m[x]]
\* an insert that keeps an entry already present
MapSet_KeepFirst(m, k, v) == IF k \in DOMAIN m THEN m ELSE MapSet(m, k, v)
\* lines 177: activeStreams.streams[callSid] = safeWS
Register(m, k, v) == MapSet(m, k, v)
\* a delete that removes nothing
MapDelete_Nothing(m, k) == m
\* lines 149, 188: delete(activeStreams.streams, callSid)
MapDelete(m, k) == [x \in DOMAIN m \ {k} |-> m[x]]
\* line 94: safeWS, exists := activeStreams.streams[callSid]
Lookup(m, k) == IF k \in DOMAIN m THEN [safeWS |-> m[k], exists |-> TRUE]
                ELSE [safeWS |-> None, exists |-> FALSE]

\* ---- sync.RWMutex of activeStreams ----
\* a Lock() that does not wait for the readers to leave
CanLock_IgnoreReaders(m) == m.writer = None
\* Lock() returns when no writer and no reader holds the mutex
CanLock(m) == m.writer = None /\ m.readers = {}
\* RLock() returns when no writer holds the mutex
CanRLock(m) == m.writer = None

\* ---- messages a connection may deliver to ws.ReadMessage ----
Events ==
    { [kind |-> "readError"], [kind |-> "badJSON"], [kind |-> "connected"],
      [kind |-> "media"], [kind |-> "other"], [kind |-> "stop"],
      [kind |-> "startNoObject"] }
    \cup { [kind |-> "start", callSid |-> sid] : sid \in Sids }

\* The runs explored: how many connections are opened, how many start
\* messages each may send, how many speech webhooks arrive, how many
\* responses a model stream delivers before it ends, and whether the upstream
\* services and the network may fail while the connection is open.
Workloads ==
    { \* one connection and one webhook: a whole turn, with failures
      [conns |-> 1, starts |-> 1, webhooks |-> 1, responses |-> MaxResponses,
       faults |-> TRUE],
      \* one connection and two webhooks: two turns on one connection
      [conns |-> 1, starts |-> 1, webhooks |-> 2, responses |-> 1,
       faults |-> FALSE] }

\* the runs explored on the registry side (SpecReg), where the goroutines
\* started by the webhooks are not run: they never touch the registry
RegWorkloads ==
    { \* two connections that may start again, one webhook
      [conns |-> 2, starts |-> MaxStarts, webhooks |-> 1, responses |-> 0,
       faults |-> FALSE],
      \* two connections, two webhooks
      [conns |-> 2, starts |-> 1, webhooks |-> 2, responses |-> 0,
       faults |-> FALSE] }

Opened == {c \in Conns : rd[c].pc # "new"}
Arrived == {h \in Handlers : hd[h].pc # "idle"}
\* connections and webhooks are numbered in the order they arrive
ConnOrder(c) == c = "wsB" => "wsA" \in Opened
HandlerOrder(h) == \A g \in 1..(h - 1) : g \in Arrived

\* call SIDs are numbered in the order they first appear
SidSeen(sid) ==
    \/ sid \in DOMAIN streams
    \/ \E c \in Conns : rd[c].callSid = sid
    \/ \E h \in Arrived : hd[h].callSid = sid
SidOrder(sid) == sid = "CA2" => SidSeen("CA1")

SysStart(loads) ==
    /\ load \in loads
    /\ envOK \in BOOLEAN
    /\ crashed = FALSE
    /\ streams = << >>
    /\ rw = [writer |-> None, readers |-> {}]
    /\ rd = [c \in Conns |-> [pc |-> "new", callSid |-> "", op |-> None,
                              n |-> 0, closed |-> FALSE]]
    /\ hd = [h \in Handlers |-> [pc |-> "idle", callSid |-> "", speechResult |-> <<>>,
                                 safeWS |-> None, exists |-> FALSE, resp |-> None]]
    /\ pl = [h \in Handlers |-> [pc |-> "none", safeWS |-> None, err |-> None,
                                 nResp |-> 0, parts |-> <<>>, sentenceBuffer |-> <<>>,
                                 emitted |-> <<>>, remainder |-> <<>>,
                                 audioLen |-> 0, i |-> 0, ttsErr |-> None,
                                 sent |-> <<>>]]
    /\ wsHolder = [c \in Conns |-> {}]
    /\ wire = [c \in Conns |-> [p |-> 0, s |-> 0, off |-> 0]]

(***************************************************************************)
(* streamHandler, lines 129-194: one invocation per connection             *)
(***************************************************************************)
\* lines 130-140: the upgrade succeeds and the read loop starts, or it fails
StreamUpgrade(c) ==
    /\ ~crashed
    /\ rd[c].pc = "new"
    /\ Cardinality(Opened) < load.conns
    /\ ConnOrder(c)
    /\ \/ rd' = [rd EXCEPT ![c].pc = "read"]
       \/ rd' = [rd EXCEPT ![c].pc = "refused"]
    /\ UNCHANGED <<fixedVars, crashed, streams, rw, hd, pl, wsHolder, wire>>

\* lines 167-170 without the test of ok
StartWithObject_NoOkTest(evt) == evt.kind \in {"start", "startNoObject"}
\* lines 167-170: a start event whose "start" member is an object
StartWithObject(evt) == evt.kind = "start"
\* line 171: callSid, _ = startObj["callSid"].(string)
CallSidOf(evt) == IF "callSid" \in DOMAIN evt THEN evt.callSid ELSE ""

\* lines 143-192 up to the Lock(): one ws.ReadMessage and its dispatch
ReadMessage(c, evt) ==
    /\ ~crashed
    /\ rd[c].pc = "read"
    /\ StartWithObject(evt) => rd[c].n < load.starts /\ SidOrder(CallSidOf(evt))
    /\ rd' = [rd EXCEPT ![c] =
          LET r == IF StartWithObject(evt) THEN [@ EXCEPT !.n = @ + 1] ELSE @
          IN  CASE evt.kind \in {"readError", "stop"} ->
                     \* lines 144-153, 184-191
                     IF r.callSid # ""
                     THEN [r EXCEPT !.pc = "lock", !.op = "remove"]
                     ELSE [r EXCEPT !.pc = "return"]
                [] StartWithObject(evt) ->
                     \* lines 167-176
                     [r EXCEPT !.callSid = CallSidOf(evt), !.pc = "lock", !.op = "start"]
                [] OTHER -> r]  \* lines 157-159, 164-165, 169-170, 181-182
    /\ UNCHANGED <<fixedVars, crashed, streams, rw, hd, pl, wsHolder, wire>>

\* lines 148, 176, 187: activeStreams.Lock()
RegistryLock(c) ==
    /\ ~crashed
    /\ rd[c].pc = "lock"
    /\ CanLock(rw)
    /\ rw' = [rw EXCEPT !.writer = c]
    /\ rd' = [rd EXCEPT ![c].pc = "locked"]
    /\ UNCHANGED <<fixedVars, crashed, streams, hd, pl, wsHolder, wire>>

\* lines 177-178: register under callSid, Unlock, read on
\* lines 149-150, 188-189: delete the entry of callSid, Unlock, go to return
RegistryWrite(c) ==
    /\ ~crashed
    /\ rd[c].pc = "locked"
    /\ IF rd[c].op = "start"
       THEN /\ streams' = Register(streams, rd[c].callSid, c)
            /\ rd' = [rd EXCEPT ![c].pc = "read", ![c].op = None]
       ELSE /\ streams' = MapDelete(streams, rd[c].callSid)
            /\ rd' = [rd EXCEPT ![c].pc = "return", ![c].op = None]
    /\ rw' = [rw EXCEPT !.writer = None]
    /\ UNCHANGED <<fixedVars, crashed, hd, pl, wsHolder, wire>>

\* lines 135, 153, 191: return runs the deferred ws.Close()
StreamReturn(c) ==
    /\ ~crashed
    /\ rd[c].pc = "return"
    /\ rd' = [rd EXCEPT ![c].pc = "ended", ![c].closed = TRUE]
    /\ UNCHANGED <<fixedVars, crashed, streams, rw, hd, pl, wsHolder, wire>>

(***************************************************************************)
(* processSpeechHandler, lines 76-126                                      *)
(***************************************************************************)
\* lines 77-90: the form values; an empty SpeechResult is answered at once
SpeechWebhook(h, speechResult, callSid) ==
    /\ ~crashed
    /\ hd[h].pc = "idle"
    /\ h <= load.webhooks
    /\ HandlerOrder(h)
    /\ SidOrder(callSid)
    /\ hd' = [hd EXCEPT ![h] =
          [@ EXCEPT !.speechResult = speechResult, !.callSid = callSid,
                    !.pc = IF speechResult = <<>> THEN "done" ELSE "rlock",
                    !.resp = IF speechResult = <<>> THEN "noSpeechGoodbye" ELSE None]]
    /\ UNCHANGED <<fixedVars, crashed, streams, rw, rd, pl, wsHolder, wire>>

\* line 93: activeStreams.RLock()
RegistryRLock(h) ==
    /\ ~crashed
    /\ hd[h].pc = "rlock"
    /\ CanRLock(rw)
    /\ rw' = [rw EXCEPT !.readers = @ \cup {h}]
    /\ hd' = [hd EXCEPT ![h].pc = "rlocked"]
    /\ UNCHANGED <<fixedVars, crashed, streams, rd, pl, wsHolder, wire>>

\* lines 94-95: the lookup and RUnlock()
RegistryLookup(h) ==
    /\ ~crashed
    /\ hd[h].pc = "rlocked"
    /\ LET r == Lookup(streams, hd[h].callSid)
       IN  hd' = [hd EXCEPT ![h].safeWS = r.safeWS, ![h].exists = r.exists,
                            ![h].pc = "decide"]
    /\ rw' = [rw EXCEPT !.readers = @ \ {h}]
    /\ UNCHANGED <<fixedVars, crashed, streams, rd, pl, wsHolder, wire>>

\* line 97 with the test dropped
NoStream_Never(h) == FALSE
\* line 97
NoStream(h) == ~hd[h].exists \/ hd[h].safeWS = None

\* lines 97-113: no stream: the error answer; else the goroutine is started
Dispatch(h) ==
    /\ ~crashed
    /\ hd[h].pc = "decide"
    /\ IF NoStream(h)
       THEN /\ hd' = [hd EXCEPT ![h].pc = "done", ![h].resp = "connectionErrorGoodbye"]
            /\ pl' = pl
       ELSE /\ hd' = [hd EXCEPT ![h].pc = "respond"]
            /\ pl' = [pl EXCEPT ![h].pc = "start", ![h].safeWS = hd[h].safeWS]
    /\ UNCHANGED <<fixedVars, crashed, streams, rw, rd, wsHolder, wire>>

\* the launch written as a plain call: line 115 is reached when the turn is over
ResponseReady_AfterTurn(h) == hd[h].pc = "respond" /\ pl[h].pc = "done"
\* lines 109-115: the go statement returns at once, line 115 is reached
ResponseReady(h) == hd[h].pc = "respond"

\* lines 115-125: the TwiML that keeps the call open
Respond(h) ==
    /\ ~crashed
    /\ ResponseReady(h)
    /\ hd' = [hd EXCEPT ![h].pc = "done", ![h].resp = "pauseAndGather"]
    /\ UNCHANGED <<fixedVars, crashed, streams, rw, rd, pl, wsHolder, wire>>

\* the TwiML documents processSpeechHandler writes: lines 85-88, 100-103 and
\* 117-124; none of them has a Hangup verb, the first two say one sentence
\* and end, the third pauses and gathers speech again
ResponseTwiML(resp) ==
    CASE resp = "noSpeechGoodbye" ->
           [status |-> 200, say |-> "I didn't catch that. Goodbye.",
            gather |-> FALSE, hangup |-> FALSE]
      [] resp = "connectionErrorGoodbye" ->
           [status |-> 200, say |-> "Sorry, there was a connection error. Goodbye.",
            gather |-> FALSE, hangup |-> FALSE]
      [] resp = "pauseAndGather" ->
           [status |-> 200, say |-> "Ask me another question, or stay silent to end the call.",
            gather |-> TRUE, hangup |-> FALSE]

(***************************************************************************)
(* streamGeminiAndTTS, lines 197-285: the goroutine of one turn            *)
(***************************************************************************)
TextPart(t) == [kind |-> "text", text |-> t]
BlobPart    == [kind |-> "blob"]          \* a part that is no genai.Text
NilContent  == [kind |-> "nilContent"]    \* a candidate whose Content is nil

\* the parts of the candidates of one response, in iteration order
SysResponses ==
    { <<TextPart(<<"a", ".">>)>>,
      <<TextPart(<<" ", "b">>)>>,
      <<TextPart(<<"a", ".">>), TextPart(<<"c", "!">>)>>,
      <<BlobPart>>,
      <<NilContent>> }

\* lengths of the audio the synthesis service may return
SysAudioLens == {0, chunkSize + 1}

\* line 332 with a step of one byte
NextOffset_ByOne(i) == i + 1
\* line 332: i += chunkSize
NextOffset(i) == i + chunkSize

\* whether the registry holds a connection for the call of turn p.  The code
\* never reads it in a turn: it is recorded with each emitted sentence (field
\* reg) only to state properties; so is req, the number of responses
\* requested from the model when the sentence was emitted.
Registered(p) == Lookup(streams, hd[p].callSid).exists

\* lines 259-261 and 277-279 returning the error instead of logging it
AfterTTS_ReturnError(r, errKind) ==
    IF errKind # None
    THEN [r EXCEPT !.pc = "done", !.err = errKind, !.ttsErr = errKind,
                   !.audioLen = 0, !.i = 0]
    ELSE IF r.emitted[Len(r.emitted)].via = "feed"
         THEN [r EXCEPT !.pc = "parts", !.ttsErr = errKind, !.audioLen = 0, !.i = 0,
                        !.sentenceBuffer = r.remainder, !.remainder = <<>>]
         ELSE [r EXCEPT !.pc = "done", !.ttsErr = errKind, !.audioLen = 0, !.i = 0]

\* the return of streamToElevenLabsAndTwilio into its caller: lines 259-264
\* (the buffer becomes the remainder) or lines 277-284 (the turn returns nil)
AfterTTS(r, errKind) ==
    IF r.emitted[Len(r.emitted)].via = "feed"
    THEN [r EXCEPT !.pc = "parts", !.ttsErr = errKind, !.audioLen = 0, !.i = 0,
                   !.sentenceBuffer = r.remainder, !.remainder = <<>>]
    ELSE [r EXCEPT !.pc = "done", !.ttsErr = errKind, !.audioLen = 0, !.i = 0]

\* lines 198-219: the environment, the client, the stream
PipelineStart(p) ==
    /\ ~crashed
    /\ pl[p].pc = "start"
    /\ IF ~envOK
       THEN pl' = [pl EXCEPT ![p].pc = "done", ![p].err = "missingEnv"]
       ELSE \/ pl' = [pl EXCEPT ![p].pc = "next"]
            \/ /\ load.faults
               /\ pl' = [pl EXCEPT ![p].pc = "done", ![p].err = "clientError"]
    /\ UNCHANGED <<fixedVars, crashed, streams, rw, rd, hd, wsHolder, wire>>

\* lines 228-230 leaving the loop as for io.EOF instead of returning
IterError_Break(r) == [r EXCEPT !.pc = "flush", !.err = "iteratorError"]
\* lines 228-230: the turn returns the iterator's error
IterError(r) == [r EXCEPT !.pc = "done", !.err = "iteratorError"]

\* lines 224-230: iter.Next() returns io.EOF, another error, or a response
PipelineNext(p) ==
    /\ ~crashed
    /\ pl[p].pc = "next"
    /\ \/ pl' = [pl EXCEPT ![p].pc = "flush"]
       \/ /\ load.faults
          /\ pl' = [pl EXCEPT ![p] = IterError(@)]
       \/ /\ pl[p].nResp < load.responses
          /\ \E resp \in SysResponses :
                /\ resp = <<NilContent>> => load.faults
                /\ pl' = [pl EXCEPT ![p].pc = "parts", ![p].parts = resp,
                                 ![p].nResp = @ + 1]
    /\ UNCHANGED <<fixedVars, crashed, streams, rw, rd, hd, wsHolder, wire>>

\* lines 232-266: the next part of the response; a sentence found in the
\* buffer is handed to streamToElevenLabsAndTwilio
PipelinePart(p) ==
    /\ ~crashed
    /\ pl[p].pc = "parts"
    /\ IF pl[p].parts = <<>>
       THEN /\ pl' = [pl EXCEPT ![p].pc = "next"]
            /\ crashed' = crashed
       ELSE LET part == Head(pl[p].parts)
                r == [pl[p] EXCEPT !.parts = Tail(@)]
            IN  CASE part.kind = "nilContent" ->
                       \* line 233: c.Content.Parts on a nil Content panics
                       /\ crashed' = TRUE
                       /\ pl' = pl
                  [] part.kind = "blob" ->
                       /\ pl' = [pl EXCEPT ![p] = r]
                       /\ crashed' = crashed
                  [] part.kind = "text" ->
                       LET f == Feed(r.sentenceBuffer, part.text)
                       IN  /\ crashed' = crashed
                           /\ pl' = [pl EXCEPT ![p] =
                                 IF f.emit
                                 THEN [r EXCEPT
                                         !.sentenceBuffer = @ \o part.text,
                                         !.remainder = f.buffer,
                                         !.emitted = Append(@, [text |-> f.sentence,
                                                     via |-> "feed", req |-> r.nResp,
                                                     reg |-> Registered(p)]),
                                         !.pc = "tts"]
                                 ELSE [r EXCEPT !.sentenceBuffer = f.buffer]]
    /\ UNCHANGED <<fixedVars, streams, rw, rd, hd, wsHolder, wire>>

\* lines 272-284: after io.EOF the remaining text is sent
PipelineFlush(p) ==
    /\ ~crashed
    /\ pl[p].pc = "flush"
    /\ LET f == Flush(pl[p].sentenceBuffer)
       IN  pl' = [pl EXCEPT ![p] =
              IF f.emit
              THEN [@ EXCEPT !.emitted = Append(@, [text |-> f.sentence,
                                          via |-> "flush", req |-> pl[p].nResp,
                                          reg |-> Registered(p)]),
                             !.pc = "tts"]
              ELSE [@ EXCEPT !.pc = "done"]]
    /\ UNCHANGED <<fixedVars, crashed, streams, rw, rd, hd, wsHolder, wire>>

(***************************************************************************)
(* streamToElevenLabsAndTwilio, lines 288-355, and SafeWS.WriteJSON        *)
(***************************************************************************)
\* lines 290-332: the synthesis request fails, or returns the audio
Synthesize(p) ==
    /\ ~crashed
    /\ pl[p].pc = "tts"
    /\ \/ \* lines 311-320, 325-328: request error, status not 200, read error
          /\ load.faults
          /\ pl' = [pl EXCEPT ![p] = AfterTTS(@, "synthesisError")]
       \/ \E n \in SysAudioLens :
             pl' = [pl EXCEPT ![p] =
                IF 0 < n
                THEN [@ EXCEPT !.audioLen = n, !.i = 0, !.pc = "wsLock"]
                ELSE AfterTTS([@ EXCEPT !.audioLen = n, !.i = 0], None)]
    /\ UNCHANGED <<fixedVars, crashed, streams, rw, rd, hd, wsHolder, wire>>

\* a Lock() that does not wait
CanLockWS_NoWait(c) == TRUE
\* SafeWS.lock.Lock() returns when nobody holds the mutex
CanLockWS(c) == wsHolder[c] = {}

\* line 32: s.lock.Lock()
WriteLock(p) ==
    /\ ~crashed
    /\ pl[p].pc = "wsLock"
    /\ CanLockWS(pl[p].safeWS)
    /\ wsHolder' = [wsHolder EXCEPT ![pl[p].safeWS] = @ \cup {p}]
    /\ pl' = [pl EXCEPT ![p].pc = "inWrite"]
    /\ UNCHANGED <<fixedVars, crashed, streams, rw, rd, hd, wire>>

\* lines 33-34 and 332-354: s.ws.WriteJSON(msg) and the deferred Unlock();
\* a write on a closed connection fails, a write on an open one may fail
WriteJSON(p) ==
    /\ ~crashed
    /\ pl[p].pc = "inWrite"
    /\ LET c == pl[p].safeWS
           r == pl[p]
           frame == [s |-> Len(r.emitted), off |-> r.i,
                     len |-> FrameEnd(r.i, r.audioLen) - r.i, req |-> r.nResp]
           w == [r EXCEPT !.sent = Append(@, frame), !.i = NextOffset(r.i)]
       IN  /\ \/ /\ ~rd[c].closed
                 /\ wire' = [wire EXCEPT ![c] = [p |-> p, s |-> frame.s, off |-> frame.off]]
                 /\ pl' = [pl EXCEPT ![p] =
                       IF w.i < w.audioLen
                       THEN [w EXCEPT !.pc = "wsLock"]
                       ELSE AfterTTS(w, None)]
              \/ /\ rd[c].closed \/ load.faults
                 /\ wire' = wire
                 /\ pl' = [pl EXCEPT ![p] = AfterTTS(r, "writeError")]
           /\ wsHolder' = [wsHolder EXCEPT ![c] = @ \ {p}]
    /\ UNCHANGED <<fixedVars, crashed, streams, rw, rd, hd>>

(***************************************************************************)
(* The server as a whole                                                   *)
(***************************************************************************)
Next ==
    \/ \E c \in Conns : StreamUpgrade(c)
    \/ \E c \in Conns, evt \in Events : ReadMessage(c, evt)
    \/ \E c \in Conns : RegistryLock(c)
    \/ \E c \in Conns : RegistryWrite(c)
    \/ \E c \in Conns : StreamReturn(c)
    \/ \E h \in Handlers, s \in Speeches, sid \in Sids : SpeechWebhook(h, s, sid)
    \/ \E h \in Handlers : RegistryRLock(h)
    \/ \E h \in Handlers : RegistryLookup(h)
    \/ \E h \in Handlers : Dispatch(h)
    \/ \E h \in Handlers : Respond(h)
    \/ \E p \in Handlers : PipelineStart(p)
    \/ \E p \in Handlers : PipelineNext(p)
    \/ \E p \in Handlers : PipelinePart(p)
    \/ \E p \in Handlers : PipelineFlush(p)
    \/ \E p \in Handlers : Synthesize(p)
    \/ \E p \in Handlers : WriteLock(p)
    \/ \E p \in Handlers : WriteJSON(p)

(***************************************************************************)
(* The Twilio webhook of the agent server: AgentHandler.VoiceWebhook       *)
(* (src/internal/handlers/agent.go) with the session documents of          *)
(* FirestoreService, the model call of VertexAIService.ProcessVoiceInput   *)
(* and the TwiML of TwilioService                                          *)
(***************************************************************************)
MaxWebhooks == 3      \* webhooks handled one after the other in a run

Reqs == 1..MaxWebhooks

UpperCase == <<"A","B","C","D","E","F","G","H","I","J","K","L","M","N",
             "O","P","Q","R","S","T","U","V","W","X","Y","Z">>
LowerCase == <<"a","b","c","d","e","f","g","h","i","j","k","l","m","n",
             "o","p","q","r","s","t","u","v","w","x","y","z">>
\* strings.ToLower on ASCII text
ToLower(s) ==
    [k \in 1..Len(s) |->
        IF \E j \in 1..26 : UpperCase[j] = s[k]
        THEN LowerCase[CHOOSE j \in 1..26 : UpperCase[j] = s[k]]
        ELSE s[k]]

\* strings.Contains(s, substr)
ContainsStr(s, substr) ==
    \E k \in 0..(Len(s) - Len(substr)) : SubSeq(s, k + 1, k + Len(substr)) = substr

\* agent.go lines 233-239
goodbyePhrases ==
    { <<"g","o","o","d","b","y","e">>, <<"b","y","e">>,
      <<"h","a","v","e"," ","a"," ","g","r","e","a","t"," ","d","a","y">>,
      <<"t","a","k","e"," ","c","a","r","e">>,
      <<"t","a","l","k"," ","t","o"," ","y","o","u"," ","l","a","t","e","r">> }

\* shouldEndConversation, agent.go lines 231-249
shouldEndConversation(response) ==
    \E phrase \in goodbyePhrases : ContainsStr(ToLower(response), phrase)

\* req.SpeechResult of a webhook: none yet, or what the caller said
Utterances == { <<>>, <<"h","i">>,
                <<"O","k","a","y",","," ","g","o","o","d","b","y","e"," ","n","o","w">> }
\* texts the model may answer with
Replies == { <<"S","u","r","e",".">>, <<"B","y","e","!">> }
\* req.CallStatus
Statuses == {"in-progress", "completed"}

\* models.Message without its timestamp
Message(role, content) == [role |-> role, content |-> content]

\* TwilioService.GenerateTwiMLResponse, twilio.go lines 32-63: with gather the
\* text is said inside a Gather, without it the text is only said
GenerateTwiMLResponse(say, gather) ==
    [status |-> 200, say |-> say, gather |-> gather, hangup |-> FALSE]
\* TwilioService.GenerateHangupResponse, twilio.go lines 66-84
GenerateHangupResponse(say) ==
    [status |-> 200, say |-> say, gather |-> FALSE, hangup |-> TRUE]
\* c.String(http.StatusOK, ""), and the answer of gin's recovery to a panic
EmptyOK == [status |-> 200, say |-> "", gather |-> FALSE, hangup |-> FALSE]
Recovered == [status |-> 500, say |-> "", gather |-> FALSE, hangup |-> FALSE]

\* no session
NoSession == [id |-> 0, call_id |-> "", history |-> <<>>]

\* documents of the collection whose call_id is callID (firestore.go 178-181)
SessionsOfCall(callID) == {id \in DOMAIN sessions : sessions[id].call_id = callID}

\* Doc(session.ID).Set(ctx, session), firestore.go lines 153, 203 and 222,
\* after session.UpdatedAt = time.Now() (lines 151, 201 and 220)
SetDoc(m, session, now) ==
    [id \in DOMAIN m \cup {session.id} |->
        IF id = session.id
        THEN [call_id |-> session.call_id, history |-> session.history,
              updated_at |-> now]
        ELSE m[id]]
\* Doc(sessionID).Delete(ctx), firestore.go line 232
DeleteDoc(m, id) == [x \in DOMAIN m \ {id} |-> m[x]]

\* The runs explored: how many webhooks arrive, whether a webhook may arrive
\* while another is being handled, and whether Firestore, Vertex AI and the
\* Twilio API may fail or the called number may have no active agent.
AgentWorkloads ==
    { [webhooks |-> MaxWebhooks, overlap |-> FALSE, faults |-> FALSE],
      [webhooks |-> 2, overlap |-> TRUE, faults |-> FALSE],
      [webhooks |-> 2, overlap |-> FALSE, faults |-> TRUE] }

CallSids == {"CA1", "CA2"}

\* goroutines calling the session functions of FirestoreService directly
StoreCallers == {1, 2}
\* a caller that is in no call
StoreIdle == [pc |-> "idle", session |-> NoSession, refs |-> {}, err |-> FALSE]
\* call SIDs are numbered in the order they first appear
CallSidOrder(sid) == sid = "CA2" => \E q \in Reqs : ar[q].CallSid = "CA1"

AgentStart ==
    /\ agLoad \in AgentWorkloads
    /\ sessions = << >>
    /\ nextID = 0
    /\ clock = 0
    /\ st = [k \in StoreCallers |-> StoreIdle]
    /\ ar = [q \in Reqs |-> [pc |-> "idle", CallSid |-> "", CallStatus |-> "",
                             SpeechResult |-> <<>>, session |-> NoSession,
                             aiResponse |-> <<>>, chat |-> <<>>, resp |-> None]]

\* agent.go line 93: fmt.Sprintf("Hello! You've reached %s. How can I help
\* you today?", agent.Name), for the agent whose Name is "the agent"
Greeting == "Hello! You've reached the agent. How can I help you today?"

\* what no step of the webhook changes
agentFixed == <<agLoad, segVars, frameVars, sysVars, st>>

\* the handler returns with the response twiml
Answer(r, twiml) == [r EXCEPT !.pc = "done", !.resp = twiml]

\* agent.go lines 41-64: the request is bound and the agent of the called
\* number is looked up
VoiceWebhook(q, CallSid, CallStatus, SpeechResult) ==
    /\ ar[q].pc = "idle"
    /\ q <= agLoad.webhooks
    /\ \A g \in 1..(q - 1) : ar[g].pc # "idle" /\ (agLoad.overlap \/ ar[g].pc = "done")
    /\ CallSidOrder(CallSid)
    /\ LET r == [ar[q] EXCEPT !.CallSid = CallSid, !.CallStatus = CallStatus,
                              !.SpeechResult = SpeechResult]
       IN  \/ ar' = [ar EXCEPT ![q] = [r EXCEPT !.pc = "getSession"]]
           \/ /\ agLoad.faults
              /\ \E say \in {"Sorry, this service is not available.",
                             "This agent is currently unavailable."} :
                    ar' = [ar EXCEPT ![q] = Answer(r, GenerateHangupResponse(say))]
    /\ UNCHANGED <<agentFixed, sessions, nextID, clock>>

\* getOrCreateSession, agent.go lines 205-210, and GetSessionByCallID,
\* firestore.go lines 177-197: one document of the call, if the query finds one
GetSessionByCallID(q) ==
    /\ ar[q].pc = "getSession"
    /\ \/ \E id \in SessionsOfCall(ar[q].CallSid) :
             ar' = [ar EXCEPT ![q].pc = "route",
                              ![q].session = [id |-> id, call_id |-> sessions[id].call_id,
                                              history |-> sessions[id].history]]
       \/ /\ SessionsOfCall(ar[q].CallSid) = {} \/ agLoad.faults
          /\ ar' = [ar EXCEPT ![q].pc = "createSession"]
    /\ UNCHANGED <<agentFixed, sessions, nextID, clock>>

\* getOrCreateSession, agent.go lines 212-227, and CreateSession, firestore.go
\* lines 149-159
CreateSession(q) ==
    /\ ar[q].pc = "createSession"
    /\ nextID' = nextID + 1
    /\ LET session == [id |-> nextID + 1, call_id |-> ar[q].CallSid, history |-> <<>>]
       IN  \/ /\ sessions' = SetDoc(sessions, session, clock + 1)
              /\ clock' = clock + 1
              /\ ar' = [ar EXCEPT ![q].pc = "route", ![q].session = session]
           \/ /\ agLoad.faults
              /\ UNCHANGED <<sessions, clock>>
              /\ ar' = [ar EXCEPT ![q] = Answer(@,
                           GenerateHangupResponse("An error occurred. Please try again."))]
    /\ UNCHANGED agentFixed

\* agent.go lines 76-83 and 88-114: the call status selects the handler; an
\* in-progress call without speech is greeted, with speech the user message
\* is appended to the session
RouteCall(q) ==
    /\ ar[q].pc = "route"
    /\ ar' = [ar EXCEPT ![q] =
          IF @.CallStatus = "completed" THEN [@ EXCEPT !.pc = "callDetails"]
          ELSE IF @.SpeechResult = <<>>
          THEN Answer(@, GenerateTwiMLResponse(Greeting, TRUE))
          ELSE [@ EXCEPT !.pc = "model",
                         !.session.history = Append(@, Message("user", ar[q].SpeechResult))]]
    /\ UNCHANGED <<agentFixed, sessions, nextID, clock>>

\* agent.go lines 117-131 and ProcessVoiceInput, vertexai.go lines 38-88: the
\* chat is started with the session's history and the input is sent
ProcessVoiceInput(q) ==
    /\ ar[q].pc = "model"
    /\ LET r == [ar[q] EXCEPT !.chat = <<[History |-> ar[q].session.history,
                                          msg |-> ar[q].SpeechResult]>>]
       IN  \/ \E aiResponse \in Replies :
                ar' = [ar EXCEPT ![q] =
                   [r EXCEPT !.pc = "updateSession", !.aiResponse = aiResponse,
                             !.session.history = Append(@, Message("assistant", aiResponse))]]
           \/ /\ agLoad.faults
              /\ ar' = [ar EXCEPT ![q] = Answer(r, GenerateHangupResponse(
                    "I'm having trouble processing your request. Please try again later."))]
    /\ UNCHANGED <<agentFixed, sessions, nextID, clock>>

\* agent.go lines 134-137 and UpdateSession, firestore.go lines 200-209; a
\* failure is only printed
UpdateSession(q) ==
    /\ ar[q].pc = "updateSession"
    /\ \/ sessions' = SetDoc(sessions, ar[q].session, clock + 1) /\ clock' = clock + 1
       \/ agLoad.faults /\ UNCHANGED <<sessions, clock>>
    /\ ar' = [ar EXCEPT ![q].pc = "reply"]
    /\ UNCHANGED <<agentFixed, nextID>>

\* agent.go lines 140-151
ReplyTwiML(q) ==
    /\ ar[q].pc = "reply"
    /\ ar' = [ar EXCEPT ![q] = Answer(@,
          IF shouldEndConversation(ar[q].aiResponse)
          THEN GenerateHangupResponse(ar[q].aiResponse)
          ELSE GenerateTwiMLResponse(ar[q].aiResponse, TRUE))]
    /\ UNCHANGED <<agentFixed, sessions, nextID, clock>>

\* handleCompletedCall, agent.go lines 159-194: when GetCallDetails fails
\* callDetails is nil and line 183 dereferences it; gin recovers the panic
GetCallDetails(q) ==
    /\ ar[q].pc = "callDetails"
    /\ \/ ar' = [ar EXCEPT ![q].pc = "deleteSession"]
       \/ /\ agLoad.faults
          /\ ar' = [ar EXCEPT ![q] = Answer(@, Recovered)]
    /\ UNCHANGED <<agentFixed, sessions, nextID, clock>>

\* agent.go lines 197-201 and DeleteSession, firestore.go lines 231-238; a
\* failure is only printed
DeleteSession(q) ==
    /\ ar[q].pc = "deleteSession"
    /\ \/ sessions' = DeleteDoc(sessions, ar[q].session.id)
       \/ agLoad.faults /\ sessions' = sessions
    /\ ar' = [ar EXCEPT ![q] = Answer(@, EmptyOK)]
    /\ UNCHANGED <<agentFixed, nextID, clock>>

NextAgent ==
    \/ \E q \in Reqs, sid \in CallSids, status \in Statuses, u \in Utterances :
          VoiceWebhook(q, sid, status, u)
    \/ \E q \in Reqs : GetSessionByCallID(q)
    \/ \E q \in Reqs : CreateSession(q)
    \/ \E q \in Reqs : RouteCall(q)
    \/ \E q \in Reqs : ProcessVoiceInput(q)
    \/ \E q \in Reqs : UpdateSession(q)
    \/ \E q \in Reqs : ReplyTwiML(q)
    \/ \E q \in Reqs : GetCallDetails(q)
    \/ \E q \in Reqs : DeleteSession(q)

(***************************************************************************)
(* The session functions of FirestoreService called directly,              *)
(* firestore.go lines 149-281.  AddMessageToSession and                    *)
(* DeleteExpiredSessions have no caller in the server; they are run here   *)
(* by callers of their own (SpecStore), never by the webhook (SpecAgent).  *)
(***************************************************************************)
MaxStoreWrites == 3   \* documents written in a run of the store alone

\* messages a caller may add
StoreMessages == {Message("user", <<"h","i">>), Message("assistant", <<"S","u","r","e",".">>)}

\* what no step of a store caller changes
storeFixed == <<agLoad, segVars, frameVars, sysVars, ar>>

\* CreateSession, firestore.go lines 149-159: the timestamps are set and the
\* document is written under the session's ID
StoreCreateSession(k, callID) ==
    /\ st[k].pc = "idle"
    /\ clock < MaxStoreWrites
    /\ nextID' = nextID + 1
    /\ clock' = clock + 1
    /\ sessions' = SetDoc(sessions, [id |-> nextID + 1, call_id |-> callID,
                                     history |-> <<>>], clock + 1)
    /\ st' = [st EXCEPT ![k].err = FALSE]
    /\ UNCHANGED storeFixed

\* AddMessageToSession, firestore.go lines 213-216, and GetSession, lines
\* 162-174: the document is read; without it the error is returned
AddMessageToSession_Get(k, sessionID) ==
    /\ st[k].pc = "idle"
    /\ sessionID \in 1..nextID
    /\ st' = [st EXCEPT ![k] =
          IF sessionID \in DOMAIN sessions
          THEN [@ EXCEPT !.pc = "addMessage", !.err = FALSE,
                         !.session = [id |-> sessionID,
                                      call_id |-> sessions[sessionID].call_id,
                                      history |-> sessions[sessionID].history]]
          ELSE [@ EXCEPT !.err = TRUE]]
    /\ UNCHANGED <<storeFixed, sessions, nextID, clock>>

\* AddMessageToSession, firestore.go lines 218-227: the message is appended
\* to the history read and the whole document is written
AddMessageToSession_Set(k, message) ==
    /\ st[k].pc = "addMessage"
    /\ clock < MaxStoreWrites
    /\ clock' = clock + 1
    /\ sessions' = SetDoc(sessions,
                      [st[k].session EXCEPT !.history = Append(@, message)], clock + 1)
    /\ st' = [st EXCEPT ![k] = StoreIdle]
    /\ UNCHANGED <<storeFixed, nextID>>

\* DeleteSession, firestore.go lines 231-238
StoreDeleteSession(k, sessionID) ==
    /\ st[k].pc = "idle"
    /\ sessionID \in 1..nextID
    /\ sessions' = DeleteDoc(sessions, sessionID)
    /\ st' = [st EXCEPT ![k].err = FALSE]
    /\ UNCHANGED <<storeFixed, nextID, clock>>

\* DeleteExpiredSessions, firestore.go lines 242-268: the documents with
\* updated_at before the cutoff are collected into the batch; with none the
\* function returns (count = 0)
DeleteExpiredSessions_Query(k, cutoffTime) ==
    /\ st[k].pc = "idle"
    /\ LET refs == {id \in DOMAIN sessions : sessions[id].updated_at < cutoffTime}
       IN  st' = [st EXCEPT ![k] =
              IF refs # {}
              THEN [@ EXCEPT !.pc = "batchCommit", !.refs = refs, !.err = FALSE]
              ELSE [@ EXCEPT !.err = FALSE]]
    /\ UNCHANGED <<storeFixed, sessions, nextID, clock>>

\* DeleteExpiredSessions, firestore.go lines 274-280: batch.Commit deletes the
\* collected documents
DeleteExpiredSessions_Commit(k) ==
    /\ st[k].pc = "batchCommit"
    /\ sessions' = [id \in DOMAIN sessions \ st[k].refs |-> sessions[id]]
    /\ st' = [st EXCEPT ![k] = StoreIdle]
    /\ UNCHANGED <<storeFixed, nextID, clock>>

NextStore ==
    \/ \E k \in StoreCallers, callID \in CallSids : StoreCreateSession(k, callID)
    \/ \E k \in StoreCallers, id \in 1..MaxStoreWrites : AddMessageToSession_Get(k, id)
    \/ \E k \in StoreCallers, m \in StoreMessages : AddMessageToSession_Set(k, m)
    \/ \E k \in StoreCallers, id \in 1..MaxStoreWrites : StoreDeleteSession(k, id)
    \/ \E k \in StoreCallers, t \in 0..(MaxStoreWrites + 1) :
          DeleteExpiredSessions_Query(k, t)
    \/ \E k \in StoreCallers : DeleteExpiredSessions_Commit(k)

\* the variables of a part that is not run rest: the segmenter and the framing
\* in a finished state, the server as started with nothing received yet
SegIdle   == /\ segPc = "done" /\ segChunks = <<>> /\ sentenceBuffer = <<>>
             /\ segOut = <<>> /\ remainder = <<>>
FrameIdle == fPc = "done" /\ audioData = <<>> /\ fI = 0 /\ fMsgs = <<>>
SysIdle   == SysStart(Workloads) /\ envOK /\ load.webhooks = 1
AgentIdle == AgentStart /\ agLoad.overlap

Init == SysStart(Workloads) /\ SegIdle /\ FrameIdle /\ AgentIdle
Spec == Init /\ [][Next]_vars

\* the registry side: transport readers and webhooks
NextReg ==
    \/ \E c \in Conns : StreamUpgrade(c)
    \/ \E c \in Conns, evt \in Events : ReadMessage(c, evt)
    \/ \E c \in Conns : RegistryLock(c)
    \/ \E c \in Conns : RegistryWrite(c)
    \/ \E c \in Conns : StreamReturn(c)
    \/ \E h \in Handlers, s \in Speeches, sid \in Sids : SpeechWebhook(h, s, sid)
    \/ \E h \in Handlers : RegistryRLock(h)
    \/ \E h \in Handlers : RegistryLookup(h)
    \/ \E h \in Handlers : Dispatch(h)
    \/ \E h \in Handlers : Respond(h)

InitReg == SysStart(RegWorkloads) /\ envOK /\ SegIdle /\ FrameIdle /\ AgentIdle
SpecReg == InitReg /\ [][NextReg]_vars

InitSeg == SegInit /\ FrameIdle /\ SysIdle /\ AgentIdle
SpecSeg == InitSeg /\ [][SegNext]_vars

InitFrame == FrameInit /\ SegIdle /\ SysIdle /\ AgentIdle
SpecFrame == InitFrame /\ [][FrameNext]_vars

InitAgent == AgentStart /\ SegIdle /\ FrameIdle /\ SysIdle
SpecAgent == InitAgent /\ [][NextAgent]_vars

InitStore == AgentIdle /\ SegIdle /\ FrameIdle /\ SysIdle
SpecStore == InitStore /\ [][NextStore]_vars

(***************************************************************************)
(* Properties of the segmenter (SpecSeg)                                   *)
(***************************************************************************)
\* all text received so far
SegReceived == Concat(segChunks)

SegTexts == [k \in 1..Len(segOut) |-> segOut[k].text]

IsPrefix(a, b) == Len(a) <= Len(b) /\ SubSeq(b, 1, Len(a)) = a

\* What is left of text after taking the sentences off its front in order,
\* skipping white space before each of them; ok = FALSE when a sentence is
\* not what comes next in text.
RECURSIVE RestAfter(_, _)
RestAfter(text, sents) ==
    IF sents = <<>> THEN [ok |-> TRUE, rest |-> text]
    ELSE LET t == TrimLeft(text)
         IN  IF Head(sents) # <<>> /\ IsPrefix(Head(sents), t)
             THEN RestAfter(SubSeq(t, Len(Head(sents)) + 1, Len(t)), Tail(sents))
             ELSE [ok |-> FALSE, rest |-> <<>>]

\* C2: after every feed of a turn the sentences emitted so far followed by
\* the buffer are the text received so far, up to white space dropped in front
\* of a sentence (inside a feed, while the sentence just cut is synthesized,
\* this holds of the remainder that becomes the buffer when the synthesis
\* returns, and the buffer still holds that sentence's text followed by that
\* remainder); when the stream has ended, the sentences and the flushed
\* remainder are the whole text, up to that white space and trailing white
\* space: no other character is lost, duplicated or reordered.
C2_SegmentConservation ==
    LET r == RestAfter(SegReceived, SegTexts)
    IN  /\ r.ok
        /\ segPc \in {"feed", "aborted"} => r.rest = sentenceBuffer
        /\ segPc = "tts" =>
               /\ r.rest = remainder
               /\ RestAfter(SegReceived, SubSeq(SegTexts, 1, Len(SegTexts) - 1)).rest
                      = sentenceBuffer
               /\ RestAfter(sentenceBuffer, <<SegTexts[Len(SegTexts)]>>) =
                      [ok |-> TRUE, rest |-> remainder]
        /\ segPc = "done" => TrimSpace(r.rest) = <<>>

\* a finished turn that emitted from feed and from flush and dropped white space
C2_Witness ==
    /\ segPc = "done"
    /\ Len(segOut) = 3
    /\ segOut[1].via = "feed"
    /\ segOut[3].via = "flush"
    /\ Concat(SegTexts) # SegReceived

HelloWorld == <<"H","e","l","l","o"," ","w","o","r","l","d",".">>
HowAreYou  == <<"H","o","w"," ","a","r","e"," ","y","o","u","?">>
ExampleChunks == <<ChunkHello, ChunkWorld, ChunkHow, ChunkFine>>

\* C3 as stated: for the chunks "Hello ", "world. ", "How are you? ", "Fine."
\* the turn emits "Hello world." and "How are you?" from feed and "Fine." from
\* the terminal flush.
C3_AsStated ==
    (segPc = "done" /\ segChunks = ExampleChunks) =>
        segOut = << [text |-> HelloWorld, via |-> "feed"],
                    [text |-> HowAreYou, via |-> "feed"],
                    [text |-> ChunkFine, via |-> "flush"] >>

\* C3 amended: for those chunks the turn emits "Hello world.", "How are you?"
\* and "Fine." in that order, all three from feed (the fourth chunk ends in a
\* boundary), and the terminal flush emits nothing.
C3_ExampleTurn ==
    (segPc = "done" /\ segChunks = ExampleChunks) =>
        /\ segOut = << [text |-> HelloWorld, via |-> "feed"],
                       [text |-> HowAreYou, via |-> "feed"],
                       [text |-> ChunkFine, via |-> "feed"] >>
        /\ ~Flush(sentenceBuffer).emit

C3_Witness == segPc = "done" /\ segChunks = ExampleChunks /\ Len(segOut) = 3

(***************************************************************************)
(* Properties of the framing (SpecFrame)                                   *)
(***************************************************************************)
B64Index(ch) == CHOOSE v \in 0..63 : B64Alphabet[v + 1] = ch

\* the bytes a receiver decodes from a base64 payload
RECURSIVE DecodeString(_)
DecodeString(s) ==
    IF Len(s) < 4 THEN <<>>
    ELSE LET v1 == B64Index(s[1])
             v2 == B64Index(s[2])
             b1 == v1 * 4 + v2 \div 16
             more == DecodeString(SubSeq(s, 5, Len(s)))
         IN  IF s[3] = "=" THEN <<b1>>
             ELSE LET v3 == B64Index(s[3])
                      b2 == (v2 % 16) * 16 + v3 \div 4
                  IN  IF s[4] = "=" THEN <<b1, b2>>
                      ELSE <<b1, b2, (v3 % 4) * 64 + B64Index(s[4])>> \o more

FramePayloads == [k \in 1..Len(fMsgs) |-> DecodeString(fMsgs[k].media.payload)]

\* C4: a delivery that returned nil wrote exactly ceil(N/F) media messages for
\* N audio bytes and F = 160, every frame holds F bytes except possibly the
\* last, which holds 1..F, no message is written for N = 0, and the decoded
\* payloads in write order are the audio.
C4_Framing ==
    fPc = "done" =>
        LET N == Len(audioData)
            n == Len(fMsgs)
        IN  /\ n = (N + chunkSize - 1) \div chunkSize
            /\ N = 0 => n = 0
            /\ \A k \in 1..n : fMsgs[k].event = "media"
            /\ \A k \in 1..(n - 1) : Len(FramePayloads[k]) = chunkSize
            /\ n > 0 => Len(FramePayloads[n]) \in 1..chunkSize
            /\ Concat(FramePayloads) = audioData

\* a delivered audio of three frames, the last one short
C4_Witness ==
    /\ fPc = "done"
    /\ Len(fMsgs) = 3
    /\ Len(audioData) % chunkSize # 0
    /\ Len(FramePayloads[3]) < chunkSize

(***************************************************************************)
(* Properties of a turn's delivery (Spec)                                  *)
(***************************************************************************)
\* the frames turn p wrote are those of its sentences in emission order, each
\* sentence's frames from offset 0 upwards without gap, and each frame was
\* written before any further response was requested from the model
FramesInOrder(p) ==
    LET S == pl[p].sent
        E == pl[p].emitted
    IN  \A k \in 1..Len(S) :
          /\ S[k].s \in 1..Len(E)
          /\ S[k].req = E[S[k].s].req
          /\ S[k].len \in 1..chunkSize
          /\ IF k = 1 \/ S[k - 1].s # S[k].s
             THEN /\ S[k].off = 0
                  /\ k > 1 => S[k - 1].s < S[k].s
             ELSE S[k].off = S[k - 1].off + S[k - 1].len

\* C1: within one turn the frames written are the concatenation, in sentence
\* emission order, of each sentence's frames in increasing byte offset, and
\* no model chunk is requested between the emission of a sentence and the
\* return of its synthesize-frame-deliver (a turn is at "next" only outside
\* streamToElevenLabsAndTwilio).
C1_TurnOrder ==
    \A p \in Handlers :
        /\ FramesInOrder(p)
        /\ pl[p].pc \in {"tts", "wsLock", "inWrite"} =>
               /\ pl[p].emitted # <<>>
               /\ pl[p].emitted[Len(pl[p].emitted)].req = pl[p].nResp

\* a turn that wrote both frames of a first and of a second sentence
C1_Witness ==
    \E p \in Handlers :
        LET S == pl[p].sent
        IN  /\ Len(S) = 4
            /\ S[2].s = 1 /\ S[2].off = chunkSize
            /\ S[3].s = 2 /\ S[4].s = 2

\* C5: on every connection at most one goroutine is inside the underlying
\* write (between Lock and Unlock of SafeWS.WriteJSON) at any time.
C5_WriteExclusion ==
    \A c \in Conns :
        /\ Cardinality(wsHolder[c]) <= 1
        /\ Cardinality({p \in Handlers : pl[p].pc = "inWrite" /\ pl[p].safeWS = c}) <= 1
        /\ wsHolder[c] = {p \in Handlers : pl[p].pc = "inWrite" /\ pl[p].safeWS = c}

\* one turn is inside the write while another turn waits for the same lock
C5_Witness ==
    \E p, q \in Handlers :
        /\ p # q
        /\ pl[p].safeWS = pl[q].safeWS
        /\ pl[p].pc = "inWrite"
        /\ pl[q].pc = "wsLock"

\* C9 as stated: when the registry holds no connection for the call at the
\* time a sentence is emitted for delivery, no frame of that sentence is
\* written.
C9_AsStated ==
    [][\A p \in Handlers :
          pl'[p].sent # pl[p].sent =>
              pl[p].emitted[Len(pl[p].emitted)].reg]_vars

\* C10: a webhook with a non-empty speech result whose lookup found no
\* registry entry answers with the connection error and starts nothing: its
\* goroutine is never launched (no model call, no synthesis, no frame), and
\* the step that decides it changes neither the registry nor any connection.
C10_NoStreamAborts ==
    /\ [](\A h \in Handlers :
            (hd[h].pc = "done" /\ hd[h].speechResult # <<>> /\ ~hd[h].exists) =>
                /\ hd[h].resp = "connectionErrorGoodbye"
                /\ pl[h].pc = "none"
                /\ pl[h].nResp = 0 /\ pl[h].emitted = <<>> /\ pl[h].sent = <<>>)
    /\ [][\A h \in Handlers :
            /\ (hd[h].pc = "rlocked" /\ hd'[h].pc = "decide") =>
                   hd'[h].exists = (hd[h].callSid \in DOMAIN streams)
            /\ (hd[h].pc = "decide" /\ ~hd[h].exists /\ hd'[h].pc # "decide") =>
                   /\ hd'[h].pc = "done"
                   /\ UNCHANGED <<streams, rd, pl, wsHolder, wire>>]_vars

\* a webhook for CA1 answered with the connection error, the connection that
\* announced CA1 having ended
C10_Witness ==
    \E h \in Handlers :
        /\ hd[h].pc = "done"
        /\ hd[h].speechResult # <<>>
        /\ hd[h].resp = "connectionErrorGoodbye"
        /\ hd[h].callSid = "CA1"
        /\ rd["wsA"].callSid = "CA1"
        /\ rd["wsA"].pc = "ended"

(***************************************************************************)
(* Properties of the registry (SpecReg)                                    *)
(***************************************************************************)
Lockers == {c \in Conns : rd[c].pc = "locked"}
Lookers == {h \in Handlers : hd[h].pc = "rlocked"}

\* C6: a register or a remove is never in progress together with another
\* register or remove or with a lookup; lookups may overlap each other.
C6_ReadManyWriteOne ==
    /\ Cardinality(Lockers) <= 1
    /\ Lockers # {} => Lookers = {}
    /\ rw.readers = Lookers
    /\ \A c \in Conns : rw.writer = c <=> c \in Lockers

\* two lookups in progress at once while a connection waits to register
C6_Witness ==
    /\ Cardinality(Lookers) = 2
    /\ \E c \in Conns : rd[c].pc = "lock" /\ rd[c].op = "start"

KeysOf(m, c) == {k \in DOMAIN m : m[k] = c}

\* C7: registering a connection under a call SID that another connection
\* holds makes the lookup of that SID return the new connection; the first
\* connection loses exactly that entry and is otherwise untouched by the
\* step (its reader and its open or closed state unchanged); the lookup of a SID changes only by a
\* register or remove under that SID.
C7_Overwrite ==
    [][/\ \A c \in Conns :
            LET sid == rd[c].callSid
            IN  (/\ rd[c].pc = "locked" /\ rd[c].op = "start"
                 /\ sid \in DOMAIN streams /\ streams[sid] # c
                 /\ rd'[c].pc # "locked") =>
                    LET old == streams[sid]
                    IN  /\ Lookup(streams', sid) = [safeWS |-> c, exists |-> TRUE]
                        /\ KeysOf(streams', old) = KeysOf(streams, old) \ {sid}
                        /\ rd'[old] = rd[old]
                        /\ rd'[old].closed = rd[old].closed
                        /\ wsHolder'[old] = wsHolder[old]
       /\ \A sid \in Sids :
            Lookup(streams', sid) # Lookup(streams, sid) =>
                \E c \in Conns : rd[c].pc = "locked" /\ rd[c].callSid = sid]_vars

\* both connections registered under CA1, the second one last
C7_Witness ==
    /\ rd["wsA"].callSid = "CA1" /\ rd["wsA"].n = 1 /\ rd["wsA"].pc = "read"
    /\ rd["wsB"].callSid = "CA1" /\ rd["wsB"].n = 1 /\ rd["wsB"].pc = "read"
    /\ Lookup(streams, "CA1").safeWS = "wsB"
    /\ ~rd["wsA"].closed

\* C8: a stop message or a read failure on a connection whose call SID (of
\* its latest start) is X, not empty, removes the entry of X before the
\* reader returns; the lookup of X finds nothing until a start registers X
\* again; and the reader handles no further message.
C8_Teardown ==
    [][/\ \A c \in Conns :
            /\ (rd[c].pc # "return" /\ rd'[c].pc = "return" /\ rd[c].callSid # "") =>
                   /\ rd[c].pc = "locked" /\ rd[c].op = "remove"
                   /\ ~Lookup(streams', rd[c].callSid).exists
            /\ (rd[c].pc = "read" /\ rd[c].callSid # "" /\ rd'[c].pc \notin {"read", "lock"}) =>
                   FALSE
            /\ rd[c].pc \in {"return", "ended"} =>
                   /\ rd'[c].pc \in {"return", "ended"}
                   /\ rd'[c].callSid = rd[c].callSid
                   /\ rd'[c].n = rd[c].n
       /\ \A sid \in Sids :
            (~Lookup(streams, sid).exists /\ Lookup(streams', sid).exists) =>
                \E c \in Conns : /\ rd[c].pc = "locked" /\ rd[c].op = "start"
                                 /\ rd[c].callSid = sid]_vars

\* a connection registered under CA1 has ended and CA1 is not found
C8_Witness ==
    \E c \in Conns :
        /\ rd[c].pc = "ended"
        /\ rd[c].callSid = "CA1"
        /\ rd[c].n = 1
        /\ ~Lookup(streams, "CA1").exists

(***************************************************************************)
(* Properties of the webhook and of a turn's failures (Spec)               *)
(***************************************************************************)
\* one step of the goroutine of turn p, wherever it stands
PipelineStep(p) ==
    \/ PipelineStart(p) \/ PipelineNext(p) \/ PipelinePart(p)
    \/ PipelineFlush(p) \/ Synthesize(p) \/ WriteJSON(p)

\* C11: a webhook with a non-empty speech result and a registered connection
\* launches the turn as a goroutine and answers with the hold instruction
\* without waiting for it: the answer is possible whatever the turn has done
\* (also nothing), it changes nothing of the turn, and the turn can go on
\* whatever the handler has done (also after it returned).
C11_AsyncLaunch ==
    /\ [](\A h \in Handlers :
            /\ (hd[h].pc = "respond" /\ ~crashed) => ENABLED Respond(h)
            /\ hd[h].pc = "respond" => pl[h].pc # "none"
            /\ (hd[h].pc = "done" /\ hd[h].speechResult # <<>> /\ ~NoStream(h)) =>
                   /\ hd[h].resp = "pauseAndGather"
                   /\ pl[h].pc # "none"
                   /\ pl[h].safeWS = hd[h].safeWS
            /\ (pl[h].pc \in {"start", "next", "parts", "flush", "tts", "inWrite"}
                  /\ ~crashed) => ENABLED PipelineStep(h))
    /\ [][\A h \in Handlers :
            (hd[h].pc = "respond" /\ hd'[h].pc # "respond") =>
                /\ hd'[h].pc = "done" /\ hd'[h].resp = "pauseAndGather"
                /\ pl' = pl]_vars

\* the hold instruction has been returned while the goroutine has not yet
\* run its first statement
C11_Witness ==
    \E h \in Handlers :
        /\ hd[h].pc = "done"
        /\ hd[h].resp = "pauseAndGather"
        /\ pl[h].pc = "start"
        /\ pl[h].nResp = 0

\* turn p is inside streamToElevenLabsAndTwilio
InTTS(r) == r.pc \in {"tts", "wsLock", "inWrite"}

\* C12: when the synthesis of a sentence fails (request, status, read or a
\* frame write), streamToElevenLabsAndTwilio returns at once: no further
\* frame of that sentence is written, the turn's error stays unset, the
\* parts not yet read and the text after the boundary are kept, and the turn
\* goes on with them (after a feed) or ends normally (after the flush).
C12_SynthesisFailureSkips ==
    /\ [](\A p \in Handlers :
            pl[p].err \in {None, "missingEnv", "clientError", "iteratorError"})
    /\ [][\A p \in Handlers :
            /\ (InTTS(pl[p]) /\ ~InTTS(pl'[p]) /\ pl'[p].ttsErr # None) =>
                   /\ pl'[p].err = None
                   /\ ~crashed'
                   /\ pl'[p].sent = pl[p].sent
                   /\ pl'[p].emitted = pl[p].emitted
                   /\ pl'[p].nResp = pl[p].nResp
                   /\ IF pl[p].emitted[Len(pl[p].emitted)].via = "feed"
                      THEN /\ pl'[p].pc = "parts"
                           /\ pl'[p].parts = pl[p].parts
                           /\ pl'[p].sentenceBuffer = pl[p].remainder
                      ELSE pl'[p].pc = "done"
            /\ pl'[p].sent # pl[p].sent =>
                   /\ pl[p].pc = "inWrite"
                   /\ Len(pl'[p].sent) = Len(pl[p].sent) + 1
                   /\ pl'[p].sent[Len(pl'[p].sent)].s = Len(pl[p].emitted)
            /\ (~InTTS(pl[p]) /\ InTTS(pl'[p])) =>
                   Len(pl'[p].emitted) = Len(pl[p].emitted) + 1]_vars

\* the write of the second frame of the first sentence failed, and the turn
\* went on to write the first frame of the second sentence
C12_Witness ==
    \E p \in Handlers :
        /\ pl[p].ttsErr = "writeError"
        /\ Len(pl[p].sent) = 2
        /\ pl[p].sent[1].s = 1
        /\ pl[p].sent[2].s = 2

\* C13: when iter.Next returns an error other than io.EOF the turn returns:
\* the step changes nothing but the turn's position and error, and from then
\* on the turn requests no response, emits no sentence (the buffered text is
\* not flushed) and writes no frame; the frames it wrote stay as they are.
C13_ModelErrorAborts ==
    /\ [](\A p \in Handlers : pl[p].err = "iteratorError" => pl[p].pc = "done")
    /\ [][\A p \in Handlers :
            /\ (pl[p].err # "iteratorError" /\ pl'[p].err = "iteratorError") =>
                   /\ pl[p].pc = "next"
                   /\ pl'[p] = [pl[p] EXCEPT !.pc = "done", !.err = "iteratorError"]
                   /\ wire' = wire
            /\ pl[p].err = "iteratorError" =>
                   /\ pl'[p] = pl[p]
                   /\ \A c \in Conns : wire'[c].p = p => wire'[c] = wire[c]]_vars

\* the stream failed after a first sentence was delivered and while text of a
\* second one was buffered
C13_Witness ==
    \E p \in Handlers :
        /\ pl[p].err = "iteratorError"
        /\ pl[p].sentenceBuffer # <<>>
        /\ Len(pl[p].emitted) = 1
        /\ Len(pl[p].sent) = 2

(***************************************************************************)
(* Properties of the agent server's webhook (SpecAgent)                    *)
(***************************************************************************)
\* the utterance contains "goodbye" or "hang up", whatever the case
Terminating(utterance) ==
    \/ ContainsStr(ToLower(utterance), <<"g","o","o","d","b","y","e">>)
    \/ ContainsStr(ToLower(utterance), <<"h","a","n","g"," ","u","p">>)

\* webhook q carried speech and its handler has answered
SpokenAndAnswered(q) ==
    /\ ar[q].pc = "done"
    /\ ar[q].CallStatus = "in-progress"
    /\ ar[q].SpeechResult # <<>>
    /\ ar[q].session # NoSession

\* C14 as stated: a speech webhook whose utterance contains "goodbye" or
\* "hang up" is answered with a hangup and without a model call, and one
\* whose utterance contains neither is answered without a hangup.
C14_AsStated ==
    \A q \in Reqs :
        SpokenAndAnswered(q) =>
            IF Terminating(ar[q].SpeechResult)
            THEN ar[q].resp.hangup /\ ar[q].chat = <<>>
            ELSE ~ar[q].resp.hangup

(***************************************************************************)
(* Properties of the responses on failure (Spec)                           *)
(***************************************************************************)
\* a control response that keeps the call open: it gathers speech again and
\* does not hang up
KeepsCallOpen(twiml) == twiml.gather /\ ~twiml.hangup

\* C15 as stated: the response to a speech webhook whose call has no
\* registered connection, or whose model call fails or does not start,
\* gathers speech again and has no hangup.
C15_AsStated ==
    \A h \in Handlers :
        (hd[h].pc = "done" /\ hd[h].speechResult # <<>>) =>
            KeepsCallOpen(ResponseTwiML(hd[h].resp))

\* turn p has just failed: its own error or the error of a synthesis is set
TurnFailed(p) ==
    \/ pl'[p].err # None /\ pl[p].err = None
    \/ pl'[p].ttsErr # None /\ pl'[p].ttsErr # pl[p].ttsErr

\* C16 as stated: no failure of one call ends the process, and the step in
\* which a turn fails changes no registry entry and no frame written by
\* another turn.
C16_AsStated ==
    /\ [](~crashed)
    /\ [][\A p \in Handlers :
            TurnFailed(p) =>
                /\ streams' = streams
                /\ \A o \in Handlers \ {p} : pl'[o].sent = pl[o].sent]_vars

\* C17 as stated: once the server is started no turn fails or is skipped
\* because a configuration value is missing.
C17_AsStated ==
    \A p \in Handlers : pl[p].err # "missingEnv"

(***************************************************************************)
(* Properties of the sessions (SpecAgent)                                  *)
(***************************************************************************)
\* the history stored for the session with this ID, empty if there is none
StoredHistory(m, id) == IF id \in DOMAIN m THEN m[id].history ELSE <<>>

\* C18 as stated: a turn with an utterance and a successful model reply
\* extends the stored conversation history of the call's session by the
\* user message with the utterance followed by the assistant message with
\* the reply, and by nothing else.
C18_AsStated ==
    [][\A q \in Reqs :
          (ar[q].pc = "updateSession" /\ ar'[q].pc # "updateSession") =>
              StoredHistory(sessions', ar[q].session.id) =
                  StoredHistory(sessions, ar[q].session.id)
                      \o << Message("user", ar[q].SpeechResult),
                            Message("assistant", ar[q].aiResponse) >>]_vars

\* C19 as stated: the first webhook of a call creates its session, every
\* later webhook of the call is given that session, and when the webhook
\* reporting the call completed has been handled no session of the call is
\* stored.
C19_AsStated ==
    /\ [](\A sid \in CallSids : Cardinality(SessionsOfCall(sid)) <= 1)
    /\ [][\A q \in Reqs :
            /\ (ar[q].pc = "createSession" /\ ar'[q].pc # "createSession") =>
                   SessionsOfCall(ar[q].CallSid) = {}
            /\ (ar[q].pc = "getSession" /\ ar'[q].pc = "route") =>
                   SessionsOfCall(ar[q].CallSid) = {ar'[q].session.id}
            /\ (ar[q].CallStatus = "completed" /\ ar[q].pc # "done"
                  /\ ar[q].session # NoSession /\ ar'[q].pc = "done") =>
                   SessionsOfCall(ar[q].CallSid)' = {}]_vars

(***************************************************************************)
(* Properties of one feed (SpecSeg)                                        *)
(***************************************************************************)
\* C20 as stated: a feed after which the buffer holds a '.', '!' or '?'
\* emits one unit, the trimmed text up to and including the right-most of
\* them, and leaves the text after it as the buffer once the unit's synthesis
\* has returned; any other feed emits nothing and leaves the old buffer plus
\* the chunk.
C20_AsStated ==
    [][/\ Len(segChunks') = Len(segChunks) + 1 =>
            LET text == sentenceBuffer \o segChunks'[Len(segChunks')]
                lastBoundary == LastBoundary(text)
            IN  IF HasBoundary(text)
                THEN /\ segOut' = Append(segOut,
                                    [text |-> TrimSpace(Slice(text, 0, lastBoundary + 1)),
                                     via |-> "feed"])
                     /\ segPc' = "tts"
                     /\ remainder' = Slice(text, lastBoundary + 1, Len(text))
                ELSE /\ segOut' = segOut
                     /\ segPc' = "feed"
                     /\ sentenceBuffer' = text
       /\ (segPc = "tts" /\ segPc' # "tts") =>
            /\ segOut' = segOut
            /\ segPc' = "feed"
            /\ sentenceBuffer' = remainder]_vars

(***************************************************************************)
(* Further properties of the segmenter (SpecSeg)                           *)
(***************************************************************************)
\* C21: every text handed to synthesis, by a feed or by the final flush, is
\* not empty and neither starts nor ends with white space, whatever chunks
\* were received (empty, white space only, punctuation only).
C21_SpeakableText ==
    \A k \in 1..Len(segOut) :
        LET t == segOut[k].text
        IN  /\ t # <<>>
            /\ t[1] \notin WhiteSpace
            /\ t[Len(t)] \notin WhiteSpace

\* a blank chunk and a chunk of punctuation and blank gave the sentence "?",
\* and the blank left in the buffer was not sent at the end of the stream
C21_Witness ==
    /\ segPc = "done"
    /\ segChunks = << <<" ">>, <<"?", " ">> >>
    /\ segOut = << [text |-> <<"?">>, via |-> "feed"] >>

\* C22: the feed of an empty chunk emits nothing, calls no synthesis and
\* leaves the buffer as it was, in every state in which the segmenter can be
\* fed.
C22_EmptyChunkNoOp ==
    [][(Len(segChunks') = Len(segChunks) + 1 /\ segChunks'[Len(segChunks')] = <<>>) =>
          /\ segOut' = segOut
          /\ segPc' = segPc
          /\ sentenceBuffer' = sentenceBuffer]_vars

\* an empty chunk was fed after a sentence had been emitted and text of the
\* next one was buffered
C22_Witness ==
    /\ Len(segChunks) = 2
    /\ segChunks[2] = <<>>
    /\ Len(segOut) = 1
    /\ sentenceBuffer # <<>>

(***************************************************************************)
(* Further properties of the registry (SpecReg)                            *)
(***************************************************************************)
\* frames that are neither a start with its object, nor a stop, nor a failure
PassiveEvents == {evt \in Events : evt.kind \in {"badJSON", "connected", "media",
                                                "other", "startNoObject"}}

\* C23: a connection is found in the registry only after a start event was
\* handled on it, and an entry for it appears only under the call SID of the
\* start event being handled on it; reading a connected, media, unparseable
\* or unrecognized frame (or a start without its object) changes neither the
\* registry nor the reader.
C23_OnlyStartRegisters ==
    /\ [](\A sid \in DOMAIN streams : rd[streams[sid]].n >= 1)
    /\ [][/\ \A sid \in Sids, c \in Conns :
               (Lookup(streams', sid).safeWS = c /\ Lookup(streams, sid).safeWS # c) =>
                   /\ rd[c].pc = "locked" /\ rd[c].op = "start"
                   /\ rd[c].callSid = sid
          /\ \A c \in Conns, evt \in PassiveEvents :
               ReadMessage(c, evt) => UNCHANGED <<rd, streams>>
          /\ \A c \in Conns, sid \in Sids :
               ReadMessage(c, [kind |-> "start", callSid |-> sid]) =>
                   rd'[c].callSid = sid /\ rd'[c].op = "start"]_vars

\* the first connection is open and has had no start event while the second
\* is registered: no call SID leads to the first
C23_Witness ==
    /\ rd["wsA"].pc = "read" /\ rd["wsA"].n = 0
    /\ rd["wsB"].pc = "read" /\ rd["wsB"].n = 1
    /\ streams = [sid \in {"CA1"} |-> "wsB"]

\* C24: the teardown of a connection (the delete after its stop event or its
\* read failure) leaves every registry entry that refers to another
\* connection as it was: the lookup of that call SID still returns the other
\* connection.
C24_AsStated ==
    [][\A c \in Conns, sid \in DOMAIN streams :
          ( /\ rd[c].pc = "locked" /\ rd[c].op = "remove"
            /\ rd'[c].pc = "return"
            /\ streams[sid] # c )
          => Lookup(streams', sid) = Lookup(streams, sid)]_vars

\* C25: once the reader of a connection has ended, no registry entry under
\* any key refers to that connection.
C25_AsStated ==
    \A c \in Conns : rd[c].pc = "ended" =>
        \A sid \in DOMAIN streams : streams[sid] # c

(***************************************************************************)
(* Two turns on one connection (Spec)                                      *)
(***************************************************************************)
\* C26: the frames of every sentence are written contiguously on the
\* connection: a frame that continues a sentence (its offset is not 0)
\* directly follows, on the wire, the previous frame of the same sentence of
\* the same turn.
C26_AsStated ==
    [][\A p \in Handlers :
          ( /\ pl[p].pc = "inWrite" /\ pl[p].i > 0
            /\ wire'[pl[p].safeWS] # wire[pl[p].safeWS] )
          => /\ wire[pl[p].safeWS].p = p
             /\ wire[pl[p].safeWS].s = Len(pl[p].emitted)
             /\ wire[pl[p].safeWS].off = pl[p].i - chunkSize]_vars

(***************************************************************************)
(* Further properties of the sessions (SpecAgent)                          *)
(***************************************************************************)
\* C27: at every moment at most one stored session exists per call SID: no
\* two stored documents carry the same call_id.
C27_AsStated ==
    \A a, b \in DOMAIN sessions :
        sessions[a].call_id = sessions[b].call_id => a = b

\* the turns handled to the end on this session with this utterance, answered
\* by the model with this reply
TurnsDone(id, u, a) ==
    {q \in Reqs : /\ ar[q].pc = "done" /\ ar[q].session.id = id
                  /\ ar[q].SpeechResult = u /\ ar[q].aiResponse = a}
\* the places of a history where the user message is directly followed by the
\* assistant message
PairsAt(h, u, a) ==
    {i \in 1..(Len(h) - 1) : h[i] = Message("user", u)
                             /\ h[i + 1] = Message("assistant", a)}

\* C28: while no service fails, the stored history of a session holds, for
\* every turn handled on it with a successful reply, the user message of the
\* turn directly followed by its assistant message (as many such pairs as
\* there were such turns).
C28_AsStated ==
    ~agLoad.faults =>
        \A id \in DOMAIN sessions, u \in Utterances \ {<<>>}, a \in Replies :
            Cardinality(PairsAt(sessions[id].history, u, a))
                >= Cardinality(TurnsDone(id, u, a))

\* C29: the handling of a completed call goes on from the fetch of the call
\* details to the deletion of the session whether or not the fetch failed,
\* and ends with an empty 200 response.
C29_AsStated ==
    /\ [][\A q \in Reqs :
            (ar[q].pc = "callDetails" /\ ar'[q].pc # "callDetails") =>
                ar'[q].pc = "deleteSession"]_vars
    /\ [](\A q \in Reqs :
            (ar[q].pc = "done" /\ ar[q].CallStatus = "completed"
               /\ ar[q].session # NoSession) => ar[q].resp = EmptyOK)

\* C30: the context given to the model for a turn (the replayed history
\* followed by the message sent) is the messages of the earlier turns followed
\* by the new utterance, once: it equals the session's history as it stands
\* after the user message of the turn was appended.
C30_AsStated ==
    [][\A q \in Reqs :
          (ar[q].pc = "model" /\ ar'[q].pc # "model") =>
              LET c == ar'[q].chat[1]
              IN  c.History \o << Message("user", c.msg) >> = ar[q].session.history]_vars

====
